---- MODULE Spec2Model ----
(***************************************************************************)
(* A model of Output.py: the price normaliser convert_to_price, the page   *)
(* extractor extract_product_details_and_info, the input reader            *)
(* read_urls_from_csv, the output-name resolver get_unique_output_file and *)
(* the driver main.                                                        *)
(*                                                                         *)
(* Text is a sequence of Unicode code points, a byte string a sequence of  *)
(* numbers in 0..255.  A Python value is a record [t, v]: t is its type    *)
(* ("str", "bytes" or "None") and v its content.                           *)
(***************************************************************************)
EXTENDS Integers, Sequences, FiniteSets, TLC

VARIABLES
    pc,               \* position of the running call
    call,             \* argument of a directly called function
    ret,              \* <<>> while running, <<result>> once returned
    inFile,           \* the input file on disk: [exists, header, rows]
    encoding,         \* the encoding open() gives a text file: the locale's
    fs,               \* names of the existing files of the working directory
    fs0,              \* fs as main last found it (lines 119 to 122)
    choice,           \* the operator's answer to the overwrite prompt
    output_csv_file,  \* main's local of that name
    urls,             \* main's local of that name
    i,                \* position of the batch loop in urls (1-based)
    resp,             \* outcome of the GET of the URL being processed
    records,          \* the tuples extract_product_details_and_info returned to main
    outfile,          \* rows written to the output file, <<>> before it is opened
    console,          \* the messages printed so far
    delays,           \* delays[k]: politeness delays taken for urls[k]
    calls,            \* calls[k]: calls of requests.get made for urls[k]
    gets              \* gets[k]: HTTP GETs those calls issued for urls[k]

vars == <<pc, call, ret, inFile, encoding, fs, fs0, choice, output_csv_file, urls, i,
          resp, records, outfile, console, delays, calls, gets>>

mainVars == <<inFile, encoding, fs, fs0, choice, output_csv_file, urls, i, resp, records,
              outfile, console, delays, calls, gets>>

----------------------------------------------------------------------------
(* Bounds of the model. *)

\* Byte strings given to convert_to_price are built from at most this many pieces.
MaxTokens == 4
\* URLs given to the extractor are built from at most this many pieces.
MaxParts == 4
\* The input file holds at most this many data rows.
MaxUrls == 2
\* The working directory may hold output_details_1.csv .. output_details_<MaxSuffix>.csv.
MaxSuffix == 1

----------------------------------------------------------------------------
(* Python values and text. *)

PyStr(s) == [t |-> "str", v |-> s]
PyBytes(b) == [t |-> "bytes", v |-> b]
PyNone == [t |-> "None", v |-> <<>>]

\* "Not Available"
NotAvailable == <<78, 111, 116, 32, 65, 118, 97, 105, 108, 97, 98, 108, 101>>

Colon == 58
Comma == 44
Slash == 47
Hyphen == 45
Space == 32
Dot == 46
Underscore == 95

\* str.isspace(): the characters str.strip() removes.
IsSpace(c) ==
    \/ c \in 9..13
    \/ c \in 28..32
    \/ c \in {133, 160, 5760, 8232, 8233, 8239, 8287, 12288}
    \/ c \in 8192..8202

\* s.strip()
Strip(s) ==
    LET keep == {k \in 1..Len(s) : ~IsSpace(s[k])}
    IN  IF keep = {} THEN <<>>
        ELSE LET lo == CHOOSE k \in keep : \A m \in keep : k <= m
                 hi == CHOOSE k \in keep : \A m \in keep : k >= m
             IN  SubSeq(s, lo, hi)

\* s.split(sep) for a one-character sep: the list of segments.
RECURSIVE Split(_, _)
SplitAt(s, sep, k) ==
    <<SubSeq(s, 1, k - 1)>> \o Split(SubSeq(s, k + 1, Len(s)), sep)
Split(s, sep) ==
    LET hits == {k \in 1..Len(s) : s[k] = sep}
    IN  IF hits = {} THEN <<s>>
        ELSE SplitAt(s, sep, CHOOSE h \in hits : \A m \in hits : h <= m)

\* s[-1]
Last(s) == s[Len(s)]

\* s.replace(old, new) for one-character old and new.
RECURSIVE Replace(_, _, _)
Replace(s, old, new) ==
    IF s = <<>> THEN <<>>
    ELSE (IF Head(s) = old THEN new ELSE <<Head(s)>>) \o Replace(Tail(s), old, new)

\* s[1:]
DropFirst(s) == IF s = <<>> THEN <<>> ELSE Tail(s)

\* str(n) for n >= 0
RECURSIVE IntToStr(_)
IntToStr(n) ==
    IF n < 10 THEN <<48 + n>> ELSE IntToStr(n \div 10) \o <<48 + (n % 10)>>

----------------------------------------------------------------------------
(* UTF-8. *)

IsCont(b, k) == k <= Len(b) /\ b[k] \in 128..191

\* The number of bytes of the well-formed UTF-8 sequence that starts at b[k],
\* 0 when there is none (bytes.decode raises UnicodeDecodeError).
Utf8Width(b, k) ==
    LET b0 == b[k] IN
    IF b0 <= 127 THEN 1
    ELSE IF b0 \in 194..223 THEN (IF IsCont(b, k + 1) THEN 2 ELSE 0)
    ELSE IF b0 \in 224..239 THEN
        (IF /\ IsCont(b, k + 1) /\ IsCont(b, k + 2)
            /\ (b0 = 224 => b[k + 1] >= 160)
            /\ (b0 = 237 => b[k + 1] <= 159)
         THEN 3 ELSE 0)
    ELSE IF b0 \in 240..244 THEN
        (IF /\ IsCont(b, k + 1) /\ IsCont(b, k + 2) /\ IsCont(b, k + 3)
            /\ (b0 = 240 => b[k + 1] >= 144)
            /\ (b0 = 244 => b[k + 1] <= 143)
         THEN 4 ELSE 0)
    ELSE 0

Utf8Point(b, k, w) ==
    CASE w = 1 -> b[k]
      [] w = 2 -> (b[k] - 192) * 64 + (b[k + 1] - 128)
      [] w = 3 -> (b[k] - 224) * 4096 + (b[k + 1] - 128) * 64 + (b[k + 2] - 128)
      [] w = 4 -> (b[k] - 240) * 262144 + (b[k + 1] - 128) * 4096
                  + (b[k + 2] - 128) * 64 + (b[k + 3] - 128)

\* b[k..].decode('utf-8'): [ok, text]; ok is FALSE for UnicodeDecodeError.
RECURSIVE DecodeFrom(_, _)
DecodeJoin(c, rest) ==
    IF rest.ok THEN [ok |-> TRUE, text |-> <<c>> \o rest.text] ELSE rest
DecodeStep(b, k, w) ==
    IF w = 0 THEN [ok |-> FALSE, text |-> <<>>]
    ELSE DecodeJoin(Utf8Point(b, k, w), DecodeFrom(b, k + w))
DecodeFrom(b, k) ==
    IF k > Len(b) THEN [ok |-> TRUE, text |-> <<>>]
    ELSE DecodeStep(b, k, Utf8Width(b, k))

Utf8Decode(b) == DecodeFrom(b, 1)

\* The code points a str may hold that no encoding takes: lone surrogates.
IsSurrogate(c) == c \in 55296..57343

\* One code point's UTF-8 bytes, [exc, val]: a surrogate is refused.
Utf8Bytes(c) ==
    IF IsSurrogate(c) THEN [exc |-> "UnicodeEncodeError", val |-> <<>>]
    ELSE IF c < 128 THEN [exc |-> "none", val |-> <<c>>]
    ELSE IF c < 2048 THEN
        [exc |-> "none", val |-> <<192 + (c \div 64), 128 + (c % 64)>>]
    ELSE IF c < 65536 THEN
        [exc |-> "none",
         val |-> <<224 + (c \div 4096), 128 + ((c \div 64) % 64), 128 + (c % 64)>>]
    ELSE [exc |-> "none",
          val |-> <<240 + (c \div 262144), 128 + ((c \div 4096) % 64),
                    128 + ((c \div 64) % 64), 128 + (c % 64)>>]

\* The bytes of a code point put before those of the rest of the text, unless
\* either was refused.
EncodeJoin(first, rest) ==
    IF first.exc # "none" THEN first
    ELSE IF rest.exc # "none" THEN rest
    ELSE [exc |-> "none", val |-> first.val \o rest.val]

\* s.encode('utf-8'): [exc, val]
RECURSIVE Utf8Encode(_)
Utf8Encode(s) ==
    IF s = <<>> THEN [exc |-> "none", val |-> <<>>]
    ELSE EncodeJoin(Utf8Bytes(Head(s)), Utf8Encode(Tail(s)))

----------------------------------------------------------------------------
(* convert_to_price *)

\* The except clause of convert_to_price: the exceptions it swallows.
ConvertCaught == {"UnicodeDecodeError", "IndexError"}

\* Lines 24-27, d the outcome of the decoding of line 22: [exc, val], exc the
\* exception raised ("none": val is returned).
ConvertText(d) ==
    IF ~d.ok THEN [exc |-> "UnicodeDecodeError", val |-> PyNone]
    ELSE LET price_part == Strip(Last(Split(d.text, Colon)))
             price_without_currency == Replace(DropFirst(price_part), Comma, <<>>)
         IN  [exc |-> "none", val |-> PyStr(price_without_currency)]

\* The try body, lines 22-27: [exc, val]
ConvertTry(byte_data) == ConvertText(Utf8Decode(byte_data.v))

\* Lines 28-30: the outcome r of the try body through the except clause.
ConvertExcept(r) ==
    IF r.exc = "none" THEN r
    ELSE IF r.exc \in ConvertCaught
         THEN [exc |-> "none", val |-> PyStr(NotAvailable)]
         ELSE r

\* convert_to_price(byte_data): [exc, val]
convert_to_price(byte_data) ==
    IF byte_data.t = "bytes"
    THEN ConvertExcept(ConvertTry(byte_data))
    ELSE [exc |-> "none", val |-> PyStr(NotAvailable)]

----------------------------------------------------------------------------
(* extract_product_details_and_info *)

\* What soup.find returns: no element, or an element with its .string (None
\* when the element has no single text child) and its .text.
NoElement == [present |-> FALSE, string |-> PyNone, text |-> <<>>]
TextElement(s) == [present |-> TRUE, string |-> PyStr(s), text |-> s]
EmptyElement == [present |-> TRUE, string |-> PyNone, text |-> <<>>]

\* requests follows redirects (allow_redirects is left at its default) and
\* gives up after this many.
RedirectLimit == 30

\* The outcome of one call of requests.get and of BeautifulSoup: gets is the
\* number of HTTP GETs the call issued (one, and one more for each redirect it
\* followed), and the call either raised (a transport error) or returned a
\* page with the three elements the extractor looks for.
FetchError(n) == [ok |-> FALSE, gets |-> n, label |-> NoElement,
                  whole |-> NoElement, rating |-> NoElement]
Page(l, w, r) == [ok |-> TRUE, gets |-> 1, label |-> l, whole |-> w, rating |-> r]

\* The page p reached through one redirect.
Redirected(p) == [p EXCEPT !.gets = 2]

\* The connection is refused: no GET is sent.
ConnectionRefused == FetchError(0)
\* The GET is sent and no answer comes back.
NoAnswer == FetchError(1)
\* A redirect loop: requests raises TooManyRedirects.
TooManyRedirects == FetchError(RedirectLimit + 1)

\* [A-Za-z0-9]: the character class with the lower-case letters let in.
IsAsinCharAnyCase(c) == c \in 48..57 \/ c \in 65..90 \/ c \in 97..122

\* [A-Z0-9]
IsAsinChar(c) == c \in 48..57 \/ c \in 65..90

\* "/dp/"
DpMarker == <<47, 100, 112, 47>>

\* re.search(r'/dp/([A-Z0-9]+)', url): group 1 of the leftmost match, or None.
AsinSearch(url) ==
    LET starts == {k \in 1..(Len(url) - 4) :
                      /\ SubSeq(url, k, k + 3) = DpMarker
                      /\ IsAsinChar(url[k + 4])}
    IN  IF starts = {} THEN PyNone
        ELSE LET k == CHOOSE h \in starts : \A m \in starts : h <= m
                 ends == {e \in (k + 4)..Len(url) :
                             \A m \in (k + 4)..e : IsAsinChar(url[m])}
                 e == CHOOSE h \in ends : \A m \in ends : h >= m
             IN  PyStr(SubSeq(url, k + 4, e))

\* The index of url.split('/')[3], counted from 1.
NameSegment == 4

\* url.split('/')[3].replace("-", " "): [exc, val]
ProductName(url) ==
    LET segs == Split(url, Slash) IN
    IF Len(segs) < NameSegment THEN [exc |-> "IndexError", val |-> PyNone]
    ELSE [exc |-> "none",
          val |-> PyStr(Replace(segs[NameSegment], Hyphen, <<Space>>))]

\* Line 58 on the outcome of the encoding of line 57: [exc, val]
ConvertEncoded(e) ==
    IF e.exc # "none" THEN [exc |-> e.exc, val |-> PyNone]
    ELSE convert_to_price(PyBytes(e.val))

\* Lines 56-58: the original price of the page: [exc, val]
OriginalPrice(label) ==
    IF label.present
    THEN IF label.string.t = "None"
         THEN [exc |-> "AttributeError", val |-> PyNone]
         ELSE ConvertEncoded(Utf8Encode(Strip(label.string.v)))
    ELSE convert_to_price(PyStr(NotAvailable))

\* Lines 60-61 and 63-64: element.text.strip() or the sentinel.
TextOrSentinel(element) ==
    IF element.present THEN PyStr(Strip(element.text)) ELSE PyStr(NotAvailable)

AllNone == [product_name |-> PyNone, asin |-> PyNone, original_price |-> PyNone,
            discounted_price |-> PyNone, product_rating |-> PyNone]

\* Lines 48-66, name and original the outcomes of lines 54 and 56-58: the
\* first exception raised, or the tuple returned.
ExtractFields(url, r, name, original) ==
    IF name.exc # "none" THEN [exc |-> name.exc, val |-> AllNone]
    ELSE IF original.exc # "none" THEN [exc |-> original.exc, val |-> AllNone]
    ELSE [exc |-> "none",
          val |-> [product_name |-> name.val,
                   asin |-> AsinSearch(url),
                   original_price |-> original.val,
                   discounted_price |-> TextOrSentinel(r.whole),
                   product_rating |-> TextOrSentinel(r.rating)]]

\* The try body, lines 43-66, given the outcome r of the GET: [exc, val].
ExtractTry(url, r) ==
    IF ~r.ok THEN [exc |-> "RequestException", val |-> AllNone]
    ELSE ExtractFields(url, r, ProductName(url), OriginalPrice(r.label))

\* except Exception: every exception the try body can raise is one.
ExtractCaught(exc) == exc # "none"

\* The except clause returning the sentinel for the name instead of None.
FailureRecordNamed == [AllNone EXCEPT !.product_name = PyStr(NotAvailable)]

\* Line 69: what the except clause returns.
FailureRecord == AllNone

\* Lines 67-69: the outcome t of the try body through the except clause:
\* [exc, val, msg]; msg is what is printed (<<>>: nothing).
\* extract_product_details_and_info(url) is that, given the outcome r of its GET.
ExtractExcept(url, t) ==
    IF t.exc = "none" THEN [exc |-> "none", val |-> t.val, msg |-> <<>>]
    ELSE IF ExtractCaught(t.exc)
         THEN [exc |-> "none", val |-> FailureRecord,
               msg |-> <<[text |-> "Error fetching data from", url |-> url,
                          cause |-> t.exc]>>]
         ELSE [exc |-> t.exc, val |-> AllNone, msg |-> <<>>]

extract_product_details_and_info(url, r) == ExtractExcept(url, ExtractTry(url, r))

----------------------------------------------------------------------------
(* read_urls_from_csv *)

\* "URL"
UrlColumn == <<85, 82, 76>>
\* "Link": a header without the URL column
OtherColumn == <<76, 105, 110, 107>>

\* row[name] of a csv.DictReader row: [exc, val]
RowLookup(header, row, name) ==
    LET cols == {k \in 1..Len(header) : header[k] = name} IN
    IF cols = {} THEN [exc |-> "KeyError", val |-> <<>>]
    ELSE LET k == CHOOSE h \in cols : \A m \in cols : h >= m
         IN  [exc |-> "none", val |-> row[k]]

\* The loop of lines 84-85 over the data rows: [exc, val]
RECURSIVE ReadRows(_, _)
ReadJoin(cell, rest) ==
    IF rest.exc # "none" THEN rest
    ELSE [exc |-> "none", val |-> <<cell.val>> \o rest.val]
ReadRow(header, rows, cell) ==
    IF cell.exc # "none" THEN [exc |-> cell.exc, val |-> <<>>]
    ELSE ReadJoin(cell, ReadRows(header, Tail(rows)))
ReadRows(header, rows) ==
    IF rows = <<>> THEN [exc |-> "none", val |-> <<>>]
    ELSE ReadRow(header, rows, RowLookup(header, Head(rows), UrlColumn))

\* read_urls_from_csv(csv_file): [exc, val]
read_urls_from_csv(file) == ReadRows(file.header, file.rows)

----------------------------------------------------------------------------
(* get_unique_output_file *)

\* os.path.splitext(p): <<root, ext>>
Splitext(p) ==
    LET seps == {k \in 1..Len(p) : p[k] = Slash}
        sepIndex == IF seps = {} THEN 0
                    ELSE CHOOSE h \in seps : \A m \in seps : h >= m
        dots == {k \in 1..Len(p) : p[k] = Dot}
        dotIndex == IF dots = {} THEN 0
                    ELSE CHOOSE h \in dots : \A m \in dots : h >= m
    IN  IF /\ dotIndex > sepIndex
           /\ \E k \in (sepIndex + 1)..(dotIndex - 1) : p[k] # Dot
        THEN <<SubSeq(p, 1, dotIndex - 1), SubSeq(p, dotIndex, Len(p))>>
        ELSE <<p, <<>>>>

\* f"{base_name}_{count}{ext}"
Suffixed(base_name, count, ext) ==
    base_name \o <<Underscore>> \o IntToStr(count) \o ext

\* An if in place of the while: the first suffixed name is taken unchecked.
UniqueOnce(name, base_name, ext, count, files) ==
    IF name \in files
    THEN [name |-> Suffixed(base_name, count, ext), count |-> count + 1]
    ELSE [name |-> name, count |-> count]

\* The while loop of lines 100-102: [name, count] when it ends.
RECURSIVE UniqueLoop(_, _, _, _, _)
UniqueLoop(name, base_name, ext, count, files) ==
    IF name \in files
    THEN UniqueLoop(Suffixed(base_name, count, ext), base_name, ext, count + 1, files)
    ELSE [name |-> name, count |-> count]

\* get_unique_output_file(output_csv_file), files the existing paths.
get_unique_output_file(name, files) ==
    UniqueLoop(name, Splitext(name)[1], Splitext(name)[2], 1, files).name

----------------------------------------------------------------------------
(* The inputs the model draws from. *)

\* Every concatenation of at most n members of the set pieces.
RECURSIVE Concats(_, _)
Concats(pieces, n) ==
    IF n = 0 THEN {<<>>}
    ELSE LET shorter == Concats(pieces, n - 1)
         IN  shorter \cup {s \o t : s \in shorter, t \in pieces}

\* Every sequence of at most n members of the set S.
RECURSIVE SeqsUpTo(_, _)
SeqsUpTo(S, n) ==
    IF n = 0 THEN {<<>>}
    ELSE LET shorter == SeqsUpTo(S, n - 1)
         IN  shorter \cup {Append(s, x) : s \in shorter, x \in S}

\* Pieces of the byte strings given to convert_to_price:
\* "1"  ","  "."  ":"  " "  "$"  "a"  the rupee sign (3 bytes)
\* a byte that is never valid UTF-8, and a lead byte with nothing after it.
Tokens == {<<49>>, <<44>>, <<46>>, <<58>>, <<32>>, <<36>>, <<97>>,
           <<226, 130, 185>>, <<255>>, <<226>>}

\* The arguments convert_to_price is called with: byte strings, and the str
\* 'Not Available' and the None a caller may pass instead.
PriceInputs ==
    {PyBytes(b) : b \in Concats(Tokens, MaxTokens)}
        \cup {PyStr(NotAvailable), PyNone}

\* "https://site.example/wireless-mouse/dp/B0ABCXYZ12"
ExampleUrl ==
    <<104, 116, 116, 112, 115, 58, 47, 47, 115, 105, 116, 101, 46, 101, 120, 97,
      109, 112, 108, 101, 47, 119, 105, 114, 101, 108, 101, 115, 115, 45, 109,
      111, 117, 115, 101, 47, 100, 112, 47, 66, 48, 65, 66, 67, 88, 89, 90, 49, 50>>

\* "http://a.in/usb-hub/dp/B0C1", "http://a.in" (three segments) and
\* "http://a.in/usb-hub/gp/b0" (no /dp/ segment)
SampleUrls ==
    {<<104, 116, 116, 112, 58, 47, 47, 97, 46, 105, 110, 47, 117, 115, 98, 45,
       104, 117, 98, 47, 100, 112, 47, 66, 48, 67, 49>>,
     <<104, 116, 116, 112, 58, 47, 47, 97, 46, 105, 110>>,
     <<104, 116, 116, 112, 58, 47, 47, 97, 46, 105, 110, 47, 117, 115, 98, 45,
       104, 117, 98, 47, 103, 112, 47, 98, 48>>}

\* Pieces of the URLs given to the extractor: "/dp/"  "B"  "0"  "b"  "/"  "-"
UrlParts == {<<47, 100, 112, 47>>, <<66>>, <<48>>, <<98>>, <<47>>, <<45>>}

ExtractUrls == Concats(UrlParts, MaxParts) \cup SampleUrls \cup {ExampleUrl}

\* "M.R.P.: " rupee sign "1,249"
LabelText == <<77, 46, 82, 46, 80, 46, 58, 32, 8377, 49, 44, 50, 52, 57>>
\* "M.R.P.: " rupee sign "1" and a lone surrogate (the markup's &#xDFFF;)
SurrogateLabelText == <<77, 46, 82, 46, 80, 46, 58, 32, 8377, 49, 57343>>
\* " 1,249. "
WholeText == <<32, 49, 44, 50, 52, 57, 46, 32>>
\* rupee sign "1,249"
RupeeWholeText == <<8377, 49, 44, 50, 52, 57>>
\* "4.3 out of 5"
RatingText == <<52, 46, 51, 32, 111, 117, 116, 32, 111, 102, 32, 53>>
\* "4.3" and a lone surrogate (the markup's &#xD800;)
SurrogateRatingText == <<52, 46, 51, 55296>>

\* The outcomes of a call of requests.get: a transport error, or a page with
\* each of the three elements absent or present (the price label also present
\* without a string, or with a string that cannot be encoded).
AllResponses ==
    {ConnectionRefused, NoAnswer, TooManyRedirects}
        \cup {Page(l, w, r) : l \in {NoElement, EmptyElement, TextElement(LabelText),
                                     TextElement(SurrogateLabelText)},
                              w \in {NoElement, TextElement(WholeText)},
                              r \in {NoElement, TextElement(RatingText)}}

\* The outcomes the batch of main is run against.
MainResponses ==
    {TooManyRedirects,
     Page(NoElement, NoElement, NoElement),
     Page(EmptyElement, TextElement(WholeText), NoElement),
     Redirected(Page(TextElement(LabelText), TextElement(RupeeWholeText),
                     TextElement(RatingText))),
     Page(NoElement, NoElement, TextElement(SurrogateRatingText))}

\* The encodings a text file is opened with when open() names none.
FileEncodings == {"utf-8", "ascii"}

\* The input file: missing, or a header and at most MaxUrls one-cell rows.
InputFiles ==
    {[exists |-> FALSE, header |-> <<>>, rows |-> <<>>]}
        \cup {[exists |-> TRUE, header |-> <<h>>, rows |-> rs] :
                 h \in {UrlColumn, OtherColumn},
                 rs \in SeqsUpTo({<<u>> : u \in SampleUrls}, MaxUrls)}

----------------------------------------------------------------------------
(* main *)

\* 'output_details.csv'
DefaultOutput == <<111, 117, 116, 112, 117, 116, 95, 100, 101, 116, 97, 105,
                   108, 115, 46, 99, 115, 118>>

\* c.lower() for an ASCII character
LowerChar(c) == IF c \in 65..90 THEN c + 32 ELSE c

\* s.lower()
Lower(s) == [k \in 1..Len(s) |-> LowerChar(s[k])]

\* "y"
Yes == <<121>>

\* What the operator may type at the overwrite prompt: "y", "Y", "n".
Answers == {<<121>>, <<89>>, <<110>>}

\* Lines 120-122: the output path once the operator has answered.
ChosenOutput(answer, files) ==
    IF Lower(answer) # Yes
    THEN get_unique_output_file(DefaultOutput, files)
    ELSE DefaultOutput

\* Line 128: the header row.
HeaderRow ==
    << <<85, 82, 76>>,
       <<80, 114, 111, 100, 117, 99, 116, 32, 78, 97, 109, 101>>,
       <<65, 83, 73, 78>>,
       <<79, 114, 105, 103, 105, 110, 97, 108, 32, 80, 114, 105, 99, 101>>,
       <<68, 105, 115, 99, 111, 117, 110, 116, 101, 100, 32, 80, 114, 105, 99, 101>>,
       <<80, 114, 111, 100, 117, 99, 116, 32, 82, 97, 116, 105, 110, 103>> >>

\* csv.writer's text of one value: None is written as the empty cell.
Cell(v) == IF v.t = "None" THEN <<>> ELSE v.v

\* The text s can be written to a file of encoding enc.
Encodable(s, enc) ==
    \A k \in 1..Len(s) : ~IsSurrogate(s[k]) /\ (enc = "ascii" => s[k] < 128)

\* The cells of the row of line 132.
RowCells(url, rec) ==
    <<url, Cell(rec.product_name), Cell(rec.asin), Cell(rec.original_price),
      Cell(rec.discounted_price), Cell(rec.product_rating)>>

\* A writer that leaves out the URLs whose extraction failed.
WriteRowIfExtracted(file, row, enc) ==
    IF \E k \in 1..Len(row) : ~Encodable(row[k], enc)
    THEN [exc |-> "UnicodeEncodeError", val |-> file]
    ELSE [exc |-> "none",
          val |-> IF \A k \in 2..Len(row) : row[k] = <<>> THEN file
                  ELSE Append(file, row)]

\* Line 132: writer.writerow([url, product_name, asin, ...]) on the open file,
\* [exc, val]: the row is appended, or a cell cannot be encoded and nothing is.
WriteRow(file, row, enc) ==
    IF \E k \in 1..Len(row) : ~Encodable(row[k], enc)
    THEN [exc |-> "UnicodeEncodeError", val |-> file]
    ELSE [exc |-> "none", val |-> Append(file, row)]

Msg(text, url, cause) == [text |-> text, url |-> url, cause |-> cause]

\* Lines 110-115: the input path is asked for and checked.
CheckInput ==
    /\ pc = "main"
    /\ IF ~inFile.exists
       THEN /\ console' = Append(console, Msg("Error: File does not exist", <<>>, ""))
            /\ pc' = "done"
       ELSE /\ pc' = "output_name"
            /\ UNCHANGED console
    /\ UNCHANGED <<call, ret, inFile, encoding, fs, fs0, choice, output_csv_file, urls, i,
                   resp, records, outfile, delays, calls, gets>>

\* The files of the working directory that may exist, when main starts or by
\* the doing of another process.
OutputNames ==
    {DefaultOutput}
        \cup {Suffixed(Splitext(DefaultOutput)[1], k, Splitext(DefaultOutput)[2]) :
                 k \in 1..MaxSuffix}

\* Lines 117-119: the default output path is tested.  When it exists main
\* goes on to ask the operator, and waits for the answer.
TestOutput ==
    /\ pc = "output_name"
    /\ output_csv_file' = DefaultOutput
    /\ fs0' = fs
    /\ pc' = IF DefaultOutput \in fs THEN "prompt" ELSE "read"
    /\ UNCHANGED <<call, ret, inFile, encoding, fs, choice, urls, i, resp, records,
                   outfile, console, delays, calls, gets>>

\* While main waits in input() at line 120, another process creates or
\* removes a file of the working directory.
DirectoryChange ==
    /\ pc = "prompt"
    /\ \E n \in OutputNames :
          fs' = IF n \in fs THEN fs \ {n} ELSE fs \cup {n}
    /\ UNCHANGED <<pc, call, ret, inFile, encoding, fs0, choice, output_csv_file, urls, i,
                   resp, records, outfile, console, delays, calls, gets>>

\* Lines 120-122: the operator answers, and the output path is chosen against
\* the directory as it is by then.
Answer ==
    /\ pc = "prompt"
    /\ \E answer \in Answers :
          /\ choice' = PyStr(answer)
          /\ output_csv_file' = ChosenOutput(answer, fs)
    /\ fs0' = fs
    /\ pc' = "read"
    /\ UNCHANGED <<call, ret, inFile, encoding, fs, urls, i, resp, records, outfile,
                   console, delays, calls, gets>>

\* Line 124, and line 136 when read_urls_from_csv raises.
ReadUrls ==
    /\ pc = "read"
    /\ \E r \in {read_urls_from_csv(inFile)} :
       IF r.exc # "none"
       THEN /\ console' = Append(console, Msg("An error occurred", <<>>, r.exc))
            /\ pc' = "done"
            /\ UNCHANGED <<urls, delays, calls, gets>>
       ELSE /\ urls' = r.val
            /\ delays' = [k \in 1..Len(r.val) |-> 0]
            /\ calls' = [k \in 1..Len(r.val) |-> 0]
            /\ gets' = [k \in 1..Len(r.val) |-> 0]
            /\ pc' = "open"
            /\ UNCHANGED console
    /\ UNCHANGED <<call, ret, inFile, encoding, fs, fs0, choice, output_csv_file, i, resp,
                   records, outfile>>

\* Lines 126-128: the output file is opened for writing and gets its header.
OpenOutput ==
    /\ pc = "open"
    /\ fs' = fs \cup {output_csv_file}
    /\ outfile' = <<HeaderRow>>
    /\ i' = 1
    /\ pc' = "loop"
    /\ UNCHANGED <<call, ret, inFile, encoding, fs0, choice, output_csv_file, urls, resp,
                   records, console, delays, calls, gets>>

\* Lines 130-131 and 43: the next URL is taken and the politeness delay waited.
Delay ==
    /\ pc = "loop"
    /\ i <= Len(urls)
    /\ delays' = [delays EXCEPT ![i] = @ + 1]
    /\ pc' = "get"
    /\ UNCHANGED <<call, ret, inFile, encoding, fs, fs0, choice, output_csv_file, urls, i,
                   resp, records, outfile, console, calls, gets>>

\* Line 45: the one call of requests.get, with whatever the network answers:
\* the call issues as many HTTP GETs as the outcome says.
Get ==
    /\ pc = "get"
    /\ \E r \in MainResponses :
          /\ resp' = Append(resp, r)
          /\ gets' = [gets EXCEPT ![i] = @ + r.gets]
    /\ calls' = [calls EXCEPT ![i] = @ + 1]
    /\ pc' = "parse"
    /\ UNCHANGED <<call, ret, inFile, encoding, fs, fs0, choice, output_csv_file, urls, i,
                   records, outfile, console, delays>>

\* Lines 46-69 and 132: the record is extracted and written; line 136 when
\* extract_product_details_and_info or writer.writerow raises.
Emit ==
    /\ pc = "parse"
    /\ \E e \in {extract_product_details_and_info(urls[i], resp[i])} :
       IF e.exc # "none"
       THEN /\ console' = Append(console, Msg("An error occurred", <<>>, e.exc))
            /\ pc' = "done"
            /\ UNCHANGED <<records, outfile, i>>
       ELSE /\ records' = Append(records, e.val)
            /\ \E w \in {WriteRow(outfile, RowCells(urls[i], e.val), encoding)} :
                  /\ outfile' = w.val
                  /\ IF w.exc # "none"
                     THEN /\ console' = console \o e.msg
                                \o <<Msg("An error occurred", <<>>, w.exc)>>
                          /\ pc' = "done"
                          /\ UNCHANGED i
                     ELSE /\ console' = console \o e.msg
                          /\ i' = i + 1
                          /\ pc' = "loop"
    /\ UNCHANGED <<call, ret, inFile, encoding, fs, fs0, choice, output_csv_file, urls,
                   resp, delays, calls, gets>>

\* Line 134: the loop is over.
Finish ==
    /\ pc = "loop"
    /\ i > Len(urls)
    /\ console' = Append(console, Msg("Scraping completed", output_csv_file, ""))
    /\ pc' = "done"
    /\ UNCHANGED <<call, ret, inFile, encoding, fs, fs0, choice, output_csv_file, urls, i,
                   resp, records, outfile, delays, calls, gets>>

----------------------------------------------------------------------------
(* Direct calls of the two functions of the extraction core. *)

\* convert_to_price(call)
ConvertCall ==
    /\ pc = "call_convert"
    /\ ret' = <<convert_to_price(call)>>
    /\ pc' = "returned"
    /\ UNCHANGED <<call, mainVars>>

\* extract_product_details_and_info(call.url), its GET answered by call.resp
ExtractCall ==
    /\ pc = "call_extract"
    /\ ret' = <<extract_product_details_and_info(call.url, call.resp)>>
    /\ pc' = "returned"
    /\ UNCHANGED <<call, mainVars>>

----------------------------------------------------------------------------
(* Specifications. *)

MainIdle ==
    /\ inFile = [exists |-> FALSE, header |-> <<>>, rows |-> <<>>]
    /\ encoding = "utf-8"
    /\ fs = {}
    /\ fs0 = {}
    /\ choice = PyNone
    /\ output_csv_file = <<>>
    /\ urls = <<>>
    /\ i = 0
    /\ resp = <<>>
    /\ records = <<>>
    /\ outfile = <<>>
    /\ console = <<>>
    /\ delays = <<>>
    /\ calls = <<>>
    /\ gets = <<>>

\* A run of main.
Init ==
    /\ pc = "main"
    /\ call = PyNone
    /\ ret = <<>>
    /\ inFile \in InputFiles
    /\ encoding \in FileEncodings
    /\ fs \in SUBSET OutputNames
    /\ fs0 = fs
    /\ choice = PyNone
    /\ output_csv_file = <<>>
    /\ urls = <<>>
    /\ i = 0
    /\ resp = <<>>
    /\ records = <<>>
    /\ outfile = <<>>
    /\ console = <<>>
    /\ delays = <<>>
    /\ calls = <<>>
    /\ gets = <<>>

Next ==
    \/ CheckInput
    \/ TestOutput
    \/ DirectoryChange
    \/ Answer
    \/ ReadUrls
    \/ OpenOutput
    \/ Delay
    \/ Get
    \/ Emit
    \/ Finish

Spec == Init /\ [][Next]_vars

\* A call of convert_to_price.
InitPrice ==
    /\ pc = "call_convert"
    /\ call \in PriceInputs
    /\ ret = <<>>
    /\ MainIdle

NextPrice == ConvertCall

SpecPrice == InitPrice /\ [][NextPrice]_vars

\* A call of extract_product_details_and_info.
InitExtract ==
    /\ pc = "call_extract"
    /\ call \in [url : ExtractUrls, resp : AllResponses]
    /\ ret = <<>>
    /\ MainIdle

NextExtract == ExtractCall

SpecExtract == InitExtract /\ [][NextExtract]_vars

----------------------------------------------------------------------------
(* Properties of the batch of main. *)

Printed(text) == \E k \in 1..Len(console) : console[k].text = text

\* The batch loop has run to its end: no exception took main out of it.
BatchFinished == pc = "done" /\ Printed("Scraping completed")

\* The extraction of urls[k] fails: the GET fails, the URL has fewer than four
\* slash-delimited segments, or the price label element has no string or a
\* string that holds a lone surrogate.
Failed(k) ==
    \/ ~resp[k].ok
    \/ Len(Split(urls[k], Slash)) < 4
    \/ /\ resp[k].label.present
       /\ \/ resp[k].label.string = PyNone
          \/ \E m \in 1..Len(resp[k].label.string.v) :
                IsSurrogate(resp[k].label.string.v[m])

Fields == {"product_name", "asin", "original_price", "discounted_price",
           "product_rating"}

\* C1: when the batch loop of main has finished, the rows written after the
\* header are exactly one per URL of the input file, in input order: row k
\* carries the k-th input URL and there are as many records as input URLs.
C1_OneRowPerUrlInOrder ==
    BatchFinished =>
        /\ Len(outfile) = Len(inFile.rows) + 1
        /\ Len(records) = Len(inFile.rows)
        /\ outfile[1] = HeaderRow
        /\ \A k \in 1..Len(inFile.rows) : outfile[k + 1][1] = inFile.rows[k][1]

\* A finished batch of two or more URLs whose first GET failed and whose second
\* extraction succeeded.
C1_Witness ==
    /\ BatchFinished
    /\ Len(urls) >= 2
    /\ ~resp[1].ok
    /\ ~Failed(2)

\* C2: a failure of the fetch or of the extraction of a URL is caught inside
\* extract_product_details_and_info: a record is still emitted for that URL,
\* with the URL and nothing else; the later URLs are still processed, each
\* record being what its own URL and page give; the batch is never aborted.
C2_IsolateAndContinue ==
    /\ \A k \in 1..Len(records) :
          /\ Failed(k) =>
                /\ records[k] = AllNone
                /\ outfile[k + 1] = <<urls[k], <<>>, <<>>, <<>>, <<>>, <<>>>>
                /\ \E m \in 1..Len(console) :
                      /\ console[m].text = "Error fetching data from"
                      /\ console[m].url = urls[k]
          /\ ~Failed(k) =>
                /\ records[k] = ExtractTry(urls[k], resp[k]).val
                /\ records[k].product_name.t = "str"
    /\ (pc = "done" /\ outfile # <<>>) =>
          /\ BatchFinished
          /\ Len(records) = Len(urls)
          /\ ~Printed("An error occurred")

DefaultBase == <<111, 117, 116, 112, 117, 116, 95, 100, 101, 116, 97, 105, 108, 115>>
DefaultExt == <<46, 99, 115, 118>>

\* "output.csv" and ".hidden"
OtherNames == {<<111, 117, 116, 112, 117, 116, 46, 99, 115, 118>>,
               <<46, 104, 105, 100, 100, 101, 110>>}

\* name is the first of base_1.ext, base_2.ext, ... that is not in files.
IsFirstFree(name, files) ==
    \E n \in 1..(Cardinality(files) + 1) :
        /\ name = DefaultBase \o <<Underscore>> \o IntToStr(n) \o DefaultExt
        /\ name \notin files
        /\ \A m \in 1..(n - 1) :
              (DefaultBase \o <<Underscore>> \o IntToStr(m) \o DefaultExt) \in files

\* C6: main keeps the default output path when it does not exist or when the
\* operator answers y; when it exists and the operator declines, main opens
\* the first of output_details_1.csv, output_details_2.csv, ... that does not
\* exist; the directory is the one found when the path is resolved, after the
\* answer when there is a prompt; get_unique_output_file ends after at most
\* one step per existing file, returns a free path unchanged and never returns
\* an existing path; a file that existed is opened for writing only after the
\* operator answered y.
C6_OutputNameResolution ==
    /\ output_csv_file # <<>> =>
          IF choice = PyNone
          THEN /\ output_csv_file = DefaultOutput
               /\ DefaultOutput \in fs0 <=> pc = "prompt"
          ELSE IF choice \in {PyStr(<<121>>), PyStr(<<89>>)}
               THEN output_csv_file = DefaultOutput
               ELSE IF DefaultOutput \in fs0
                    THEN IsFirstFree(output_csv_file, fs0)
                    ELSE output_csv_file = DefaultOutput
    /\ outfile # <<>> =>
          /\ fs = fs0 \cup {output_csv_file}
          /\ output_csv_file \in fs0 => choice \in {PyStr(<<121>>), PyStr(<<89>>)}
    /\ \A n \in OutputNames \cup OtherNames :
          /\ get_unique_output_file(n, fs0) \notin fs0
          /\ n \notin fs0 => get_unique_output_file(n, fs0) = n
          /\ UniqueLoop(n, Splitext(n)[1], Splitext(n)[2], 1, fs0).count
                <= Cardinality(fs0) + 1

\* output_details.csv and output_details_1.csv existed, the operator declined,
\* and output_details_2.csv was opened.
C6_Witness ==
    /\ outfile # <<>>
    /\ choice = PyStr(<<110>>)
    /\ {DefaultOutput, DefaultBase \o <<95, 49>> \o DefaultExt} \subseteq fs0
    /\ output_csv_file = DefaultBase \o <<95, 50>> \o DefaultExt

\* C7 as claimed: when the input file does not exist or has no URL column,
\* with or without data rows, the run ends with an error reported and the
\* output file is never created or modified.
C7_NoOutputOnBadInput ==
    (~inFile.exists \/ \A k \in 1..Len(inFile.header) : inFile.header[k] # UrlColumn)
        => /\ outfile = <<>>
           /\ pc = "done" =>
                 (Printed("Error: File does not exist") \/ Printed("An error occurred"))

\* C8: one worker, one attempt per URL: for each URL one politeness delay is
\* taken and then at most one HTTP GET is issued, never a GET before its delay
\* and never a second GET; the delay of a URL does not begin before the record
\* of the URL before it has been emitted.
C8_SingleGetPerUrl ==
    /\ Len(delays) = Len(urls) /\ Len(gets) = Len(urls)
    /\ \A k \in 1..Len(urls) :
          /\ delays[k] <= 1
          /\ gets[k] <= delays[k]
          /\ (k > 1 /\ delays[k] >= 1) =>
                /\ Len(records) >= k - 1
                /\ Len(outfile) >= k
          /\ Len(records) >= k => delays[k] = 1
    /\ Len(resp) = Len(records) + (IF pc = "parse" THEN 1 ELSE 0)

----------------------------------------------------------------------------
(* Properties of convert_to_price. *)

IsDigit(c) == c \in 48..57

\* s matches ^[0-9]+(\.[0-9]+)?$
MatchesPrice(s) ==
    LET dots == {k \in 1..Len(s) : s[k] = Dot} IN
    /\ Len(s) >= 1
    /\ \A k \in 1..Len(s) : IsDigit(s[k]) \/ s[k] = Dot
    /\ Cardinality(dots) <= 1
    /\ \A k \in dots : k > 1 /\ k < Len(s)

\* C4 as claimed: whatever it is given, convert_to_price returns the sentinel
\* or a string matching ^[0-9]+(\.[0-9]+)?$.
C4_SentinelOrDigits ==
    pc = "returned" =>
        /\ ret[1].exc = "none"
        /\ \/ ret[1].val = PyStr(NotAvailable)
           \/ ret[1].val.t = "str" /\ MatchesPrice(ret[1].val.v)

\* The bytes are not valid UTF-8, or the text has no colon, or nothing is left
\* of the segment after its last colon once trimmed.
Malformed(b) ==
    \/ ~Utf8Decode(b).ok
    \/ \A k \in 1..Len(Utf8Decode(b).text) : Utf8Decode(b).text[k] # Colon
    \/ Strip(Last(Split(Utf8Decode(b).text, Colon))) = <<>>

\* C5 as claimed: convert_to_price never raises, and returns the sentinel when
\* the bytes are not valid UTF-8, when the decoded text has no colon and when
\* the trimmed segment after the last colon is empty.
C5_SentinelOnMalformed ==
    pc = "returned" =>
        /\ ret[1].exc = "none"
        /\ (call.t = "bytes" /\ Malformed(call.v)) => ret[1].val = PyStr(NotAvailable)

----------------------------------------------------------------------------
(* Properties of extract_product_details_and_info. *)

\* The call returned the record of a successful extraction.
Extracted == pc = "returned" /\ ret[1].exc = "none" /\ ret[1].val.product_name.t = "str"

\* "wireless mouse" and "B0ABCXYZ12"
ExampleName == <<119, 105, 114, 101, 108, 101, 115, 115, 32, 109, 111, 117, 115, 101>>
ExampleAsin == <<66, 48, 65, 66, 67, 88, 89, 90, 49, 50>>

\* C9 as claimed: for a fetched page and a URL of at least four segments, each
\* absent element gives exactly the sentinel in its own field, whatever the
\* other two elements are; each page field depends on its own element only;
\* the product name is the 4th segment with its hyphens turned into spaces and
\* the catalog ID is that of the URL; the example URL with the three elements
\* absent gives "wireless mouse", "B0ABCXYZ12" and three sentinels.
C9_IndependentAbsence ==
    (pc = "returned" /\ call.resp.ok /\ Len(Split(call.url, Slash)) >= 4) =>
        /\ ret[1].exc = "none"
        /\ ~call.resp.label.present => ret[1].val.original_price = PyStr(NotAvailable)
        /\ ~call.resp.whole.present => ret[1].val.discounted_price = PyStr(NotAvailable)
        /\ ~call.resp.rating.present => ret[1].val.product_rating = PyStr(NotAvailable)
        /\ ret[1].val.product_name
              = PyStr(Replace(Split(call.url, Slash)[4], Hyphen, <<Space>>))
        /\ ret[1].val.asin = AsinSearch(call.url)
        /\ \A r \in AllResponses :
              r.ok =>
                /\ r.label = call.resp.label =>
                      extract_product_details_and_info(call.url, r).val.original_price
                          = ret[1].val.original_price
                /\ r.whole = call.resp.whole =>
                      extract_product_details_and_info(call.url, r).val.discounted_price
                          = ret[1].val.discounted_price
                /\ r.rating = call.resp.rating =>
                      extract_product_details_and_info(call.url, r).val.product_rating
                          = ret[1].val.product_rating
        /\ (call.url = ExampleUrl /\ call.resp = Page(NoElement, NoElement, NoElement)) =>
              ret[1].val = [product_name |-> PyStr(ExampleName),
                            asin |-> PyStr(ExampleAsin),
                            original_price |-> PyStr(NotAvailable),
                            discounted_price |-> PyStr(NotAvailable),
                            product_rating |-> PyStr(NotAvailable)]

\* "/dp/" stands at position k of url.
DpAt(url, k) == k + 3 <= Len(url) /\ SubSeq(url, k, k + 3) = <<47, 100, 112, 47>>

IsUpperOrDigit(c) == c \in 48..57 \/ c \in 65..90
IsAlnum(c) == IsUpperOrDigit(c) \/ c \in 97..122

\* a is the whole run of characters of the class upper (or, when anyCase, of
\* letters of either case and digits) that starts at position k of url.
IsRunAt(a, url, k, anyCase) ==
    /\ Len(a) >= 1
    /\ k + Len(a) - 1 <= Len(url)
    /\ a = SubSeq(url, k, k + Len(a) - 1)
    /\ \A m \in 1..Len(a) : IF anyCase THEN IsAlnum(a[m]) ELSE IsUpperOrDigit(a[m])
    /\ k + Len(a) <= Len(url) =>
          ~(IF anyCase THEN IsAlnum(url[k + Len(a)]) ELSE IsUpperOrDigit(url[k + Len(a)]))

\* C10 as claimed: the catalog ID is the whole run of letters of either case
\* and digits after the first "/dp/" of the URL, and is absent exactly when no
\* "/dp/" of the URL is followed by a letter or a digit.
C10_AlnumRunAfterFirstDp ==
    Extracted =>
        /\ (ret[1].val.asin = PyNone) <=>
              ~\E k \in 1..Len(call.url) :
                  DpAt(call.url, k) /\ k + 4 <= Len(call.url) /\ IsAlnum(call.url[k + 4])
        /\ ret[1].val.asin # PyNone =>
              \E k \in 1..Len(call.url) :
                  /\ DpAt(call.url, k)
                  /\ \A j \in 1..(k - 1) : ~DpAt(call.url, j)
                  /\ IsRunAt(ret[1].val.asin.v, call.url, k + 4, TRUE)

\* "/dp/" stands at position k of url and an upper-case letter or a digit follows.
AsinAt(url, k) == DpAt(url, k) /\ k + 4 <= Len(url) /\ IsUpperOrDigit(url[k + 4])

\* C10, amended: the catalog ID is the whole run of upper-case letters and
\* digits after the first "/dp/" of the URL that such a character follows, and
\* is None exactly when no "/dp/" of the URL is followed by one.
C10_UpperRunAfterFirstMatch ==
    Extracted =>
        /\ (ret[1].val.asin = PyNone) <=> ~\E k \in 1..Len(call.url) : AsinAt(call.url, k)
        /\ ret[1].val.asin # PyNone =>
              /\ ret[1].val.asin.t = "str"
              /\ \E k \in 1..Len(call.url) :
                    /\ AsinAt(call.url, k)
                    /\ \A j \in 1..(k - 1) : ~AsinAt(call.url, j)
                    /\ IsRunAt(ret[1].val.asin.v, call.url, k + 4, FALSE)

\* A "/dp/" followed by a lower-case letter comes before the one that matches.
C10_Witness ==
    /\ Extracted
    /\ ret[1].val.asin.t = "str"
    /\ \E j, k \in 1..Len(call.url) :
          /\ j < k
          /\ DpAt(call.url, j) /\ ~AsinAt(call.url, j)
          /\ AsinAt(call.url, k)
          /\ IsRunAt(ret[1].val.asin.v, call.url, k + 4, FALSE)

====
